---- MODULE Spec2Model ----
(***************************************************************************)
(* PyCuckooHashTable (src/hashmap/cuckoo.py): a two-choice bucketed cuckoo  *)
(* hash table with a bounded breadth-first displacement search and a        *)
(* doubling rehash.  The flat backing list is kept as in the source: the    *)
(* key of a cell sits at an even index idx and its value at idx + 1.        *)
(***************************************************************************)
EXTENDS Integers, Sequences, FiniteSets, TLC

VARIABLES
    b,       \* self._b : entries per bucket, fixed at construction
    m,       \* self._m : number of buckets
    len,     \* self._len
    data,    \* self._data : function 0 .. 2*m*b-1 -> key / value / NIL
    digest,  \* the 64-bit digest xxh64(str(hash(key))) of every key
    ref,     \* reference mapping run side by side: key -> value or NIL
    err,     \* "none", "assert" (line 151 raised), "diverged" (a put that cannot return)
    last     \* the last operation, its arguments and what it returned

vars == <<b, m, len, data, digest, ref, err, last>>

----------------------------------------------------------------------------
(* Bounds of the model.                                                     *)

NumKeys == 3
NumVals == 2
MaxB == 2
MaxDoublings == 2

(* The arguments tried at construction: m in 1 .. MaxCtorM and b in         *)
(* -1 .. MaxCtorB.                                                          *)
MaxCtorM == 3
MaxCtorB == 1

(* The displacement search is followed on tables of four buckets and the    *)
(* keys 1 .. NumSearchKeys.                                                 *)
NumSearchKeys == 5

(* The indexer is tried on tables of m = 2 * h buckets, h in 1 .. MaxHalf.  *)
MaxHalf == 6

Keys == 1 .. NumKeys
Vals == 1 .. NumVals

(* The bucket count beyond which a further doubling is not followed.        *)
RECURSIVE Pow2(_)
Pow2(n) == IF n = 0 THEN 1 ELSE 2 * Pow2(n - 1)

MaxM == 2 * Pow2(MaxDoublings)

----------------------------------------------------------------------------
(* Program constants.                                                       *)

CYCLES == 500

(* _nil: the sentinel of an empty slot; no key and no value equals it.      *)
NIL == 0

----------------------------------------------------------------------------
(* Digests.  A digest is a 64-bit number, written as four 16-bit limbs,     *)
(* least significant first, so that no product leaves the integer range.    *)

Limb == 65536

Collide == <<43981, 4660, 61453, 2989>>    \* 0x0BADF00D 1234ABCD

DigestSet ==
    { Collide,
      <<43981, 4660, 60945, 49407>>,     \* 0xC0FFEE11 1234ABCD
      <<59797, 23505, 61453, 2989>> }    \* 0x0BADF00D 5BD1E995

(* (x * n) >> 32 for the 32-bit x = hi16 * 2^16 + lo16.                     *)
FastRange(lo16, hi16, n) == (hi16 * n + ((lo16 * n) \div Limb)) \div Limb

----------------------------------------------------------------------------
(* The table as a value: the object's fields, together with what a call     *)
(* does besides writing them (raises, rehashes, migrates).                  *)

EmptyData(mm, bb) == [i \in 0 .. (mm * bb * 2 - 1) |-> NIL]

(* _buckets with `+ m` left out of the second index.                        *)
BucketsWithoutOffset(t, key) ==
    LET idx == digest[key]
        half == t.m \div 2
    IN  << FastRange(idx[1], idx[2], half),
           FastRange(idx[3], idx[4], half) >>

(* _buckets: idx1 = idx & 0xFFFFFFFF, idx2 = idx >> 32, m = self._m / 2.    *)
Buckets(t, key) ==
    LET idx == digest[key]
        half == t.m \div 2
    IN  << FastRange(idx[1], idx[2], half),
           FastRange(idx[3], idx[4], half) + half >>

(* _indices: xrange(idx, idx + b * 2, 2), as a sequence; the range is empty *)
(* when b <= 0.                                                             *)
Indices(t, bucket) ==
    [i \in 1 .. (IF t.b > 0 THEN t.b ELSE 0) |-> bucket * t.b * 2 + 2 * (i - 1)]

(* The first index of the bucket whose slot holds x, or -1.                 *)
RECURSIVE FirstAt(_, _, _, _)
FirstAt(d, ixs, i, x) ==
    IF i > Len(ixs) THEN -1
    ELSE IF d[ixs[i]] = x THEN ixs[i]
    ELSE FirstAt(d, ixs, i + 1, x)

(* _search *)
Search(t, bucket, key) ==
    LET idx == FirstAt(t.data, Indices(t, bucket), 1, key)
    IN  IF idx >= 0 THEN t.data[idx + 1] ELSE NIL

(* __getitem__: the value found, or NIL for KeyError.                       *)
GetItem(t, key) ==
    LET bs == Buckets(t, key)
        v1 == Search(t, bs[1], key)
    IN  IF v1 # NIL THEN v1 ELSE Search(t, bs[2], key)

(* _upsert with its two scans swapped: a free slot is taken before the key  *)
(* is looked for.                                                           *)
UpsertFreeFirst(t, bucket, key, val) ==
    LET ixs == Indices(t, bucket)
        hit == FirstAt(t.data, ixs, 1, key)
        free == FirstAt(t.data, ixs, 1, NIL)
    IN  IF free >= 0
        THEN << [t EXCEPT !.data = [@ EXCEPT ![free] = key, ![free + 1] = val],
                          !.len = @ + 1], TRUE >>
        ELSE IF hit >= 0
        THEN << [t EXCEPT !.data = [@ EXCEPT ![hit + 1] = val]], TRUE >>
        ELSE << t, FALSE >>

(* _upsert: <<table, True/False>>.                                          *)
Upsert(t, bucket, key, val) ==
    LET ixs == Indices(t, bucket)
        hit == FirstAt(t.data, ixs, 1, key)
        free == FirstAt(t.data, ixs, 1, NIL)
    IN  IF hit >= 0
        THEN << [t EXCEPT !.data = [@ EXCEPT ![hit + 1] = val]], TRUE >>
        ELSE IF free >= 0
        THEN << [t EXCEPT !.data = [@ EXCEPT ![free] = key, ![free + 1] = val],
                          !.len = @ + 1], TRUE >>
        ELSE << t, FALSE >>

(* _remove with `self._len -= 1` moved out of the `if`: the count drops     *)
(* whether or not the key was found.                                        *)
RemoveAlwaysDecrements(t, bucket, key) ==
    LET hit == FirstAt(t.data, Indices(t, bucket), 1, key)
    IN  IF hit >= 0
        THEN << [t EXCEPT !.data = [@ EXCEPT ![hit] = NIL, ![hit + 1] = NIL],
                          !.len = @ - 1], TRUE >>
        ELSE << [t EXCEPT !.len = @ - 1], FALSE >>

(* _remove: <<table, True/False>>.                                          *)
Remove(t, bucket, key) ==
    LET hit == FirstAt(t.data, Indices(t, bucket), 1, key)
    IN  IF hit >= 0
        THEN << [t EXCEPT !.data = [@ EXCEPT ![hit] = NIL, ![hit + 1] = NIL],
                          !.len = @ - 1], TRUE >>
        ELSE << t, FALSE >>

(* __delitem__: <<table, removed>>; removed = FALSE is KeyError.            *)
DelItem(t, key) ==
    LET bs == Buckets(t, key)
        r1 == Remove(t, bs[1], key)
    IN  IF r1[2] THEN r1 ELSE Remove(t, bs[2], key)

(* The loop of _migrate without `idx = nxt`: every resident is copied into  *)
(* the cell the path ends at.                                               *)
RECURSIVE MigrateLoopKeepsIdx(_, _, _, _)
MigrateLoopKeepsIdx(d, path, n, idx) ==
    IF n = 0 THEN << d, idx >>
    ELSE LET nxt == path[n]
         IN  MigrateLoopKeepsIdx([d EXCEPT ![idx] = d[nxt], ![idx + 1] = d[nxt + 1]],
                                 path, n - 1, idx)

(* _displace._migrate: path.pop() walks the path from its last index.       *)
RECURSIVE MigrateLoop(_, _, _, _)
MigrateLoop(d, path, n, idx) ==
    IF n = 0 THEN << d, idx >>
    ELSE LET nxt == path[n]
         IN  MigrateLoop([d EXCEPT ![idx] = d[nxt], ![idx + 1] = d[nxt + 1]],
                         path, n - 1, nxt)

(* _migrate without its while loop: the pair is written into the empty      *)
(* cell the path ends at and no resident moves.                             *)
MigrateWithoutShift(t, path, key, val) ==
    LET idx == path[Len(path)]
    IN  [t EXCEPT !.data = [@ EXCEPT ![idx] = key, ![idx + 1] = val],
                  !.len = @ + 1,
                  !.migrations = @ + 1]

(* _migrate without `self._len += 1`.                                       *)
MigrateKeepsLen(t, path, key, val) ==
    LET r == MigrateLoop(t.data, path, Len(path) - 1, path[Len(path)])
        d == r[1]
        idx == r[2]
    IN  [t EXCEPT !.data = [d EXCEPT ![idx] = key, ![idx + 1] = val],
                  !.migrations = @ + 1]

(* _migrate: the residents move one cell along the path, the last first,    *)
(* and the pair takes the cell the path starts at.                          *)
Migrate(t, path, key, val) ==
    LET r == MigrateLoop(t.data, path, Len(path) - 1, path[Len(path)])
        d == r[1]
        idx == r[2]
    IN  [t EXCEPT !.data = [d EXCEPT ![idx] = key, ![idx + 1] = val],
                  !.len = @ + 1,
                  !.migrations = @ + 1]

(* _migrate write by write: the cell list after each assignment of lines    *)
(* 127, 128, 130 and 131, in the order they are made.                       *)
RECURSIVE MigrateWritesLoop(_, _, _, _)
MigrateWritesLoop(d, path, n, idx) ==
    IF n = 0 THEN << >>
    ELSE LET nxt == path[n]
             d1 == [d EXCEPT ![idx] = d[nxt]]
             d2 == [d1 EXCEPT ![idx + 1] = d1[nxt + 1]]
         IN  << d1, d2 >> \o MigrateWritesLoop(d2, path, n - 1, nxt)

(* _migrate with the pair written before the loop instead of after it.      *)
MigrateWritesKeyFirst(d, path, key, val) ==
    LET d3 == [d EXCEPT ![path[1]] = key]
        d4 == [d3 EXCEPT ![path[1] + 1] = val]
    IN  << d3, d4 >> \o MigrateWritesLoop(d4, path, Len(path) - 1, path[Len(path)])

MigrateWrites(d, path, key, val) ==
    LET w == MigrateWritesLoop(d, path, Len(path) - 1, path[Len(path)])
        dl == IF w = << >> THEN d ELSE w[Len(w)]
        d3 == [dl EXCEPT ![path[1]] = key]
        d4 == [d3 EXCEPT ![path[1] + 1] = val]
    IN  w \o << d3, d4 >>

(* The deque of line 135: one single-index path per slot of b1, then of b2. *)
SeedPaths(t, b1, b2) ==
    LET i1 == Indices(t, b1)
        i2 == Indices(t, b2)
    IN  [i \in 1 .. Len(i1) |-> << i1[i] >>] \o [i \in 1 .. Len(i2) |-> << i2[i] >>]

(* Lines 149-152: the bucket a resident moves to, or -1 when the assertion  *)
(* b1 == bucket or b2 == bucket fails.                                      *)
Target(t, idx) ==
    LET vb == Buckets(t, t.data[idx])
        bucket == idx \div (t.b * 2)
    IN  IF vb[1] # bucket /\ vb[2] # bucket THEN -1
        ELSE IF vb[1] # bucket THEN vb[1] ELSE vb[2]

(* Lines 153-158: the path extended by every slot of tgt.                   *)
Extend(t, path, tgt) ==
    LET ixs == Indices(t, tgt)
    IN  [i \in 1 .. Len(ixs) |-> Append(path, ixs[i])]

(* The search of lines 142-158 reads the table and never writes it.  Its    *)
(* state: the deque q, the number n of paths taken from it, and kind, which *)
(* tells how the loop was left: "searching" (not yet), "found" (line 147,   *)
(* with the path), "assert" (line 151) or "IndexError" (popleft of line 143 *)
(* on an empty deque, which a table of b <= 0 starts with).                 *)
SearchStart(t, b1, b2) ==
    [q |-> SeedPaths(t, b1, b2), n |-> 0, kind |-> "searching", path |-> << >>]

(* One pass of the loop with paths.pop() for paths.popleft(): the path is   *)
(* taken from the right end of the deque, where the new ones are put.       *)
SearchStepPopsRight(t, s) ==
    IF s.kind # "searching" THEN s
    ELSE IF s.q = << >> THEN [s EXCEPT !.kind = "IndexError"]
    ELSE LET path == s.q[Len(s.q)]
             idx == path[Len(path)]
             tgt == Target(t, idx)
             rest == SubSeq(s.q, 1, Len(s.q) - 1)
         IN  IF t.data[idx] = NIL
             THEN [s EXCEPT !.kind = "found", !.path = path,
                            !.q = rest, !.n = @ + 1]
             ELSE IF tgt < 0
             THEN [s EXCEPT !.kind = "assert", !.path = path,
                            !.q = rest, !.n = @ + 1]
             ELSE [s EXCEPT !.q = rest \o Extend(t, path, tgt), !.n = @ + 1]

(* One pass of the body of `for _ in xrange(self.CYCLES)`.                  *)
SearchStep(t, s) ==
    IF s.kind # "searching" THEN s
    ELSE IF s.q = << >> THEN [s EXCEPT !.kind = "IndexError"]
    ELSE LET path == Head(s.q)
             idx == path[Len(path)]
             tgt == Target(t, idx)
         IN  IF t.data[idx] = NIL
             THEN [s EXCEPT !.kind = "found", !.path = path,
                            !.q = Tail(@), !.n = @ + 1]
             ELSE IF tgt < 0
             THEN [s EXCEPT !.kind = "assert", !.path = path,
                            !.q = Tail(@), !.n = @ + 1]
             ELSE [s EXCEPT !.q = Tail(@) \o Extend(t, path, tgt), !.n = @ + 1]

(* k passes of the loop body, one after the other: the first half of them,  *)
(* then the rest from the state u they leave.                               *)
RECURSIVE SearchSteps(_, _, _)
SearchSteps(t, s, k) ==
    IF k = 0 THEN s
    ELSE IF k = 1 THEN SearchStep(t, s)
    ELSE LET h == k \div 2
         IN  CHOOSE r \in { SearchSteps(t, u, k - h) : u \in { SearchSteps(t, s, h) } } : TRUE

(* The loop with xrange(self.CYCLES + 1): one pass too many.                 *)
FindPathOneMore(t, b1, b2) == SearchSteps(t, SearchStart(t, b1, b2), CYCLES + 1)

(* The loop of line 142: kind "searching" at its end is the exhausted       *)
(* budget.                                                                  *)
FindPath(t, b1, b2) == SearchSteps(t, SearchStart(t, b1, b2), CYCLES)

(* __setitem__, _displace and _rehash call one another.  A call on a table  *)
(* whose err is set does nothing: the exception is on its way up.           *)
RECURSIVE SetItem(_, _, _)
RECURSIVE RehashLoop(_, _, _)

(* _rehash without `self._len = 0`: the pairs put back are counted again.   *)
RehashKeepsLen(t) ==
    IF t.m * 2 > MaxM THEN [t EXCEPT !.err = "bound"]
    ELSE RehashLoop([t EXCEPT !.m = t.m * 2,
                              !.data = EmptyData(t.m * 2, t.b),
                              !.rehashes = @ + 1],
                    t.data, 0)

(* _rehash with `self._m += 2` for `self._m *= 2`.                          *)
RehashAddsBuckets(t) ==
    IF t.m + 2 > MaxM THEN [t EXCEPT !.err = "bound"]
    ELSE RehashLoop([t EXCEPT !.m = t.m + 2,
                              !.data = EmptyData(t.m + 2, t.b),
                              !.len = 0,
                              !.rehashes = @ + 1],
                    t.data, 0)

(* _rehash: double m, start from an empty list, put every pair of the old   *)
(* list back in index order.  The model follows no doubling beyond MaxM:    *)
(* err "bound" marks a call it has not followed to its end.                 *)
Rehash(t) ==
    IF t.m * 2 > MaxM THEN [t EXCEPT !.err = "bound"]
    ELSE RehashLoop([t EXCEPT !.m = t.m * 2,
                              !.data = EmptyData(t.m * 2, t.b),
                              !.len = 0,
                              !.rehashes = @ + 1],
                    t.data, 0)

RehashLoop(t, old, idx) ==
    IF t.err # "none" \/ idx \notin DOMAIN old THEN t
    ELSE IF old[idx] # NIL
    THEN RehashLoop(SetItem(t, old[idx], old[idx + 1]), old, idx + 2)
    ELSE RehashLoop(t, old, idx + 2)

(* _displace after its search f: migrate along the path found (line 147),   *)
(* raise (line 151), or rehash and put again (lines 160-161).               *)
AfterSearch(t, f, key, val) ==
    CASE f.kind = "found" -> Migrate(t, f.path, key, val)
      [] f.kind = "assert" -> [t EXCEPT !.err = "assert"]
      [] f.kind = "IndexError" -> [t EXCEPT !.err = "IndexError"]
      [] f.kind = "searching" -> SetItem(Rehash(t), key, val)

(* _displace *)
Displace(t, b1, b2, key, val) == AfterSearch(t, FindPath(t, b1, b2), key, val)

(* __setitem__ *)
SetItem(t, key, val) ==
    IF t.err # "none" THEN t
    ELSE LET bs == Buckets(t, key)
             u1 == Upsert(t, bs[1], key, val)
             u2 == Upsert(t, bs[2], key, val)
         IN  IF u1[2] THEN u1[1]
             ELSE IF u2[2] THEN u2[1]
             ELSE Displace(t, bs[1], bs[2], key, val)

(* __iter__: the keys in index order.                                       *)
RECURSIVE IterFrom(_, _)
IterFrom(d, idx) ==
    IF idx \notin DOMAIN d THEN << >>
    ELSE IF d[idx] # NIL THEN << d[idx] >> \o IterFrom(d, idx + 2)
    ELSE IterFrom(d, idx + 2)

Iter(t) == IterFrom(t.data, 0)

----------------------------------------------------------------------------
(* The state machine.                                                       *)

(* The object as a table value, with nothing raised yet.                    *)
Self == [b |-> b, m |-> m, len |-> len, data |-> data,
         err |-> "none", rehashes |-> 0, migrations |-> 0]

(* __len__ and __nonzero__ *)
Length == len
Nonzero == len > 0

(* key in d: MutableMapping.__contains__ tries __getitem__.                 *)
Contains(key) == GetItem(Self, key) # NIL

NoOp == [op |-> "new", key |-> NIL, res |-> "ok", rehashes |-> 0, migrations |-> 0]

(* __init__(m = 2, b): assert m % 2 == 0.  All keys but the last have one   *)
(* digest (equal hashes of unequal keys, as in test_hash_operator); the     *)
(* last key has any digest when b = 1.                                      *)
Init ==
    /\ b \in 1 .. MaxB
    /\ m = 2
    /\ len = 0
    /\ data = EmptyData(2, b)
    /\ digest \in [Keys -> DigestSet]
    /\ \A k \in Keys : (k < NumKeys \/ b > 1) => digest[k] = Collide
    /\ ref = [k \in Keys |-> NIL]
    /\ err = "none"
    /\ last = NoOp

(* __init__(m, b): the assertion of line 26 is its only check; when it      *)
(* fails no field is set.                                                   *)
New(mm, bb) ==
    IF mm % 2 # 0
    THEN [b |-> bb, m |-> mm, len |-> 0, data |-> EmptyData(0, 0),
          err |-> "AssertionError"]
    ELSE [b |-> bb, m |-> mm, len |-> 0, data |-> EmptyData(mm, bb), err |-> "none"]

(* The keys of the occupied cells.                                          *)
Stored(d) == { d[i] : i \in { j \in DOMAIN d : j % 2 = 0 /\ d[j] # NIL } }

(* More than 2 * b distinct keys of one digest: at every m they share two   *)
(* buckets of b cells, so no rehash places them all.  __setitem__ drops no  *)
(* key and _displace has no exit but migrate and rehash-and-retry: the call *)
(* d[key] = val doubles m without end.                                      *)
NoRoom(key) ==
    Cardinality({ k \in Stored(data) \cup {key} : digest[k] = digest[key] }) > 2 * b

(* d[key] = val, when the call returns (or raises at line 151).             *)
Put(key, val) ==
    /\ err = "none"
    /\ \E r \in { SetItem(Self, key, val) } :
           /\ r.err # "bound"
           /\ m' = r.m
           /\ len' = r.len
           /\ data' = r.data
           /\ err' = r.err
           /\ ref' = IF r.err = "none" THEN [ref EXCEPT ![key] = val] ELSE ref
           /\ last' = [NoOp EXCEPT !.op = "put", !.key = key,
                                   !.res = IF r.err = "none" THEN "ok" ELSE r.err,
                                   !.rehashes = r.rehashes,
                                   !.migrations = r.migrations]
    /\ UNCHANGED <<b, digest>>

(* d[key] = val, when the call cannot return: _displace exhausts its budget *)
(* and rehashes, at every m.                                                *)
PutNoReturn(key, val) ==
    /\ err = "none"
    /\ NoRoom(key)
    /\ SetItem(Self, key, val).err = "bound"
    /\ err' = "diverged"
    /\ last' = [NoOp EXCEPT !.op = "put", !.key = key, !.res = "diverged"]
    /\ UNCHANGED <<b, m, len, data, digest, ref>>

(* del d[key] *)
Del(key) ==
    /\ err = "none"
    /\ \E r \in { DelItem(Self, key) } :
           /\ len' = r[1].len
           /\ data' = r[1].data
           /\ ref' = IF r[2] THEN [ref EXCEPT ![key] = NIL] ELSE ref
           /\ last' = [NoOp EXCEPT !.op = "del", !.key = key,
                                   !.res = IF r[2] THEN "ok" ELSE "KeyError"]
    /\ UNCHANGED <<b, m, digest, err>>

(* d[key]: __getitem__ reads and writes nothing; what it returns is         *)
(* GetItem(Self, key), NIL standing for KeyError.                           *)
Get(key) ==
    /\ err = "none"
    /\ GetItem(Self, key) \in Vals \cup {NIL}
    /\ UNCHANGED vars

Next ==
    \/ \E key \in Keys, val \in Vals : Put(key, val)
    \/ \E key \in Keys, val \in Vals : PutNoReturn(key, val)
    \/ \E key \in Keys : Del(key)
    \/ \E key \in Keys : Get(key)

Spec == Init /\ [][Next]_vars

(* Construction with any arguments, followed by the same operations.  A     *)
(* call that raised leaves err set, and the model follows the object no     *)
(* further.                                                                 *)
CtorM == 1 .. MaxCtorM
CtorB == -1 .. MaxCtorB

InitCtor ==
    /\ \E mm \in CtorM, bb \in CtorB :
           \E t \in { New(mm, bb) } :
               /\ b = t.b
               /\ m = t.m
               /\ len = t.len
               /\ data = t.data
               /\ err = t.err
               /\ last = [NoOp EXCEPT !.res = IF t.err = "none" THEN "ok" ELSE t.err]
    /\ digest = [k \in Keys |-> Collide]
    /\ ref = [k \in Keys |-> NIL]

SpecCtor == InitCtor /\ [][Next]_vars

(* The displacement search, on a table built as PyCuckooHashTable(m=4, b)   *)
(* whose keys have digests that spread over the buckets.  With one cell per *)
(* bucket the buckets of the keys at m = 4 are (0, 2), (0, 3), (1, 3),      *)
(* (1, 2), (0, 2), which gives eviction chains of three cells; with more    *)
(* cells per bucket they are (0, 2), (0, 2), (0, 3), (1, 2), (0, 2), which  *)
(* fills both buckets of a key while a neighbour has room.  Every key is    *)
(* put with one value, its own.                                             *)
SearchKeys == 1 .. NumSearchKeys

ChainDigests ==
    << Collide,
       << 43981, 4660, 60945, 49407 >>,     \* 0xC0FFEE11 1234ABCD
       << 31161, 40503, 60945, 49407 >>,    \* 0xC0FFEE11 9E3779B9
       << 31161, 40503, 61453, 2989 >>,     \* 0x0BADF00D 9E3779B9
       << 59797, 23505, 61453, 2989 >> >>   \* 0x0BADF00D 5BD1E995

BranchDigests ==
    << Collide,
       << 59797, 23505, 61453, 2989 >>,     \* 0x0BADF00D 5BD1E995
       << 43981, 4660, 60945, 49407 >>,     \* 0xC0FFEE11 1234ABCD
       << 31161, 40503, 61453, 2989 >>,     \* 0x0BADF00D 9E3779B9
       Collide >>

SearchDigests(bb) == IF bb = 1 THEN ChainDigests ELSE BranchDigests

InitSearch ==
    /\ b \in 1 .. MaxB
    /\ m = 4
    /\ len = 0
    /\ data = EmptyData(4, b)
    /\ digest = [k \in SearchKeys |->
                    SearchDigests(b)[((k - 1) % Len(SearchDigests(b))) + 1]]
    /\ ref = [k \in SearchKeys |-> NIL]
    /\ err = "none"
    /\ last = NoOp

NextSearch ==
    \/ \E key \in SearchKeys : Put(key, (key % NumVals) + 1)
    \/ \E key \in SearchKeys : Del(key)
    \/ \E key \in SearchKeys : Get(key)

SpecSearch == InitSearch /\ [][NextSearch]_vars

(* The indexer alone, on an empty table of any even m and for the digests   *)
(* whose limbs are at the edges of their range: the first key has any of    *)
(* them.                                                                    *)
EdgeLimbs == { 0, 1, Limb \div 2 - 1, Limb \div 2, Limb - 1 }

EdgeDigests == { << l1, l2, l3, l4 >> : l1, l2, l3, l4 \in EdgeLimbs }

InitIndexer ==
    /\ b \in 1 .. MaxB
    /\ m \in { 2 * h : h \in 1 .. MaxHalf }
    /\ len = 0
    /\ data = EmptyData(m, b)
    /\ \E d \in EdgeDigests \cup {Collide} :
           digest = [k \in Keys |-> IF k = 1 THEN d ELSE Collide]
    /\ ref = [k \in Keys |-> NIL]
    /\ err = "none"
    /\ last = NoOp

(* self._buckets(key), as every operation calls it first.                   *)
BucketsOf(key) ==
    /\ last' = [NoOp EXCEPT !.op = "buckets", !.key = key, !.res = Buckets(Self, key)]
    /\ UNCHANGED <<b, m, len, data, digest, ref, err>>

NextIndexer == \E key \in Keys : BucketsOf(key)

SpecIndexer == InitIndexer /\ [][NextIndexer]_vars

----------------------------------------------------------------------------
(* What the claims speak of.                                                *)

(* The indices of the occupied cells, and the bucket of a cell.              *)
Occupied(d) == { i \in DOMAIN d : i % 2 = 0 /\ d[i] # NIL }

BucketOf(idx) == idx \div (b * 2)

(* key is the key of a cell of one of its two candidate buckets.            *)
InBuckets(key) ==
    \E i \in Occupied(data) :
        /\ data[i] = key
        /\ BucketOf(i) \in { Buckets(Self, key)[1], Buckets(Self, key)[2] }

(* How often iteration yields key.                                          *)
Yields(key) == Cardinality({ i \in 1 .. Len(Iter(Self)) : Iter(Self)[i] = key })

(* Invariants 1, 3 and 5 of the data model, on the cells as they are.       *)
Invariant1(d, mm) ==
    \A i \in Occupied(d) :
        LET bs == Buckets([m |-> mm], d[i])
        IN  i \div (b * 2) \in { bs[1], bs[2] }

Invariant3(d, n) == n = Cardinality(Occupied(d))

Invariant4(d) == \A i, j \in Occupied(d) : d[i] = d[j] => i = j

Invariant5(d, mm) == mm % 2 = 0 /\ DOMAIN d = 0 .. (mm * b * 2 - 1)

(* C1: for every key put and not erased since, get returns the value of the *)
(* last put: the table agrees with the reference mapping.                   *)
C1_GetReturnsLastPut ==
    err = "none" => \A k \in Keys : ref[k] # NIL => GetItem(Self, k) = ref[k]

(* C2: no two occupied cells hold equal keys (invariant 4); a put of a key  *)
(* that resides in b2 creates no second cell for it in b1.                  *)
C2_NoDuplicateKeys == Invariant4(data)

(* C3: a put that returns changes len by +1 when the key was not in the     *)
(* table and leaves len unchanged when it was; then it only overwrites the  *)
(* key's value.                                                             *)
C3_PutChangesLen ==
    [][ \A k \in Keys :
          (last'.op = "put" /\ last'.key = k /\ last'.res = "ok") =>
              IF InBuckets(k)
              THEN /\ len' = len
                   /\ m' = m
                   /\ \A i \in DOMAIN data :
                          (i % 2 = 0 \/ data[i - 1] # k) => data'[i] = data[i]
              ELSE len' = len + 1 ]_vars

(* C4: after erase(k) succeeds, contains(k) is false and a repeated         *)
(* erase(k) raises KeyError.                                                *)
C4_EraseRemoves ==
    (last.op = "del" /\ last.res = "ok") =>
        /\ ~Contains(last.key)
        /\ ~DelItem(Self, last.key)[2]

(* C5: after every operation each occupied cell lies in one of the two      *)
(* candidate buckets of its key under the current m (invariant 1), and the  *)
(* assertion of line 151 never fails.                                       *)
C5_CellsInCandidateBuckets ==
    /\ err # "assert"
    /\ err = "none" => Invariant1(data, m)

(* C5's case: a put that rehashed and migrated, leaving a key in its second *)
(* bucket.                                                                  *)
C5_Witness ==
    /\ last.op = "put" /\ last.res = "ok"
    /\ last.rehashes > 0 /\ last.migrations > 0
    /\ \E i \in Occupied(data) : BucketOf(i) = Buckets(Self, data[i])[2]

(* C6: after every operation len equals the number of occupied cells, which *)
(* is the number of keys iteration yields; the table is empty (not          *)
(* __nonzero__) exactly when that number is 0.                              *)
C6_LenCountsCells ==
    err = "none" =>
        /\ Length = Cardinality(Occupied(data))
        /\ Len(Iter(Self)) = Cardinality(Occupied(data))
        /\ ~Nonzero <=> Cardinality(Occupied(data)) = 0

(* C6's case: an erase from a table that was rehashed and still holds keys. *)
C6_Witness ==
    /\ last.op = "del" /\ last.res = "ok"
    /\ m > 2
    /\ len = 2

(* C7: iteration yields each live key, with its current value, exactly      *)
(* once, and no other key.                                                  *)
C7_IterationYieldsLiveKeysOnce ==
    err = "none" =>
        \A k \in Keys :
            IF ref[k] # NIL
            THEN Yields(k) = 1 /\ GetItem(Self, k) = ref[k]
            ELSE Yields(k) = 0

(* C8: every put returns without error with its key stored, also for keys   *)
(* that share a digest.                                                     *)
C8_PutReturns ==
    last.op = "put" => (last.res = "ok" /\ Contains(last.key))

(* C9: a put of an absent key that rehashes ends with m at least doubled,   *)
(* every pair of the table still there with its value, the new pair stored  *)
(* once, and len one more than before.                                      *)
C9_RehashKeepsPairs ==
    [][ \A k \in Keys :
          (last'.op = "put" /\ last'.key = k /\ last'.res = "ok"
              /\ last'.rehashes > 0 /\ ~InBuckets(k)) =>
              /\ m' >= 2 * m
              /\ \A j \in Keys : InBuckets(j) => GetItem(Self', j) = GetItem(Self, j)
              /\ Cardinality({ i \in Occupied(data') : data'[i] = k }) = 1
              /\ GetItem(Self', k) = ref'[k]
              /\ len' = len + 1 ]_vars

(* C10: get and erase of a key that is in neither of its candidate buckets  *)
(* raise KeyError and change neither the cells nor m nor len, so that       *)
(* every invariant of the data model that held before holds after.          *)
C10_AbsentKeyFails ==
    /\ [](\A k \in Keys : (err = "none" /\ ~InBuckets(k)) => GetItem(Self, k) = NIL)
    /\ [][ \A k \in Keys :
             (last'.op = "del" /\ last'.key = k /\ ~InBuckets(k)) =>
                 /\ last'.res = "KeyError"
                 /\ UNCHANGED <<b, m, len, data>>
                 /\ Invariant1(data, m) => Invariant1(data', m')
                 /\ Invariant3(data, len) => Invariant3(data', len')
                 /\ Invariant4(data) => Invariant4(data')
                 /\ Invariant5(data, m) => Invariant5(data', m') ]_vars

(* C10's case: an erase of an absent key from a table that holds keys.      *)
C10_Witness ==
    /\ last.op = "del" /\ last.res = "KeyError"
    /\ len > 0
    /\ ~InBuckets(last.key)

(* C11: a put(k, v) made again right after put(k, v) returned leaves len, m *)
(* and every cell as the first call left them.                              *)
C11_PutIdempotent ==
    [][ \A k \in Keys :
          (last'.op = "put" /\ last'.key = k /\ last'.res = "ok") =>
              \E r \in { SetItem(Self', k, ref'[k]) } :
                  /\ r.err = "none"
                  /\ r.len = len'
                  /\ r.m = m'
                  /\ r.data = data' ]_vars

(* C11's case: a put has left its key in the second bucket only, where the  *)
(* repeated put must find it.                                               *)
C11_Witness ==
    /\ last.op = "put" /\ last.res = "ok"
    /\ Search(Self, Buckets(Self, last.key)[1], last.key) = NIL
    /\ Search(Self, Buckets(Self, last.key)[2], last.key) # NIL
    /\ SetItem(Self, last.key, ref[last.key]).data = data

(* C12: for a key k that is not in the table, put(k, v) followed by         *)
(* erase(k) brings len back to its value before the put and leaves the      *)
(* retrievable pairs as they were.                                          *)
C12_PutEraseRoundTrip ==
    [][ \A k \in Keys :
          (last'.op = "put" /\ last'.key = k /\ last'.res = "ok" /\ ~InBuckets(k)) =>
              \E r \in { DelItem(Self', k) } :
                  /\ r[2]
                  /\ r[1].len = len
                  /\ \A j \in Keys : GetItem(r[1], j) = GetItem(Self, j) ]_vars

(* C13: construction with an odd m or a non-positive b fails and gives no   *)
(* table; a table that was constructed has a positive even m and a          *)
(* positive b.                                                              *)
C13_InvalidConfigRejected ==
    last.op = "new" =>
        /\ (m % 2 # 0 \/ b <= 0) => err = "AssertionError"
        /\ err = "none" => (m > 0 /\ m % 2 = 0 /\ b > 0)

(* C14: for every digest and every even m >= 2 the indexer gives            *)
(* 0 <= b1 < m/2 and m/2 <= b2 < m, so b1 # b2, and every slot of the two   *)
(* buckets is a slot of the cell list.                                      *)
C14_IndexerRanges ==
    last.op = "buckets" =>
        /\ 0 <= last.res[1] /\ last.res[1] < m \div 2
        /\ m \div 2 <= last.res[2] /\ last.res[2] < m
        /\ last.res[1] # last.res[2]
        /\ \A j \in 1 .. 2 :
               \A i \in 1 .. b :
                   /\ Indices(Self, last.res[j])[i] \in DOMAIN data
                   /\ Indices(Self, last.res[j])[i] + 1 \in DOMAIN data

(* C14's case: the largest digest on a table of more than two buckets takes *)
(* the last bucket of each half.                                            *)
C14_Witness ==
    /\ last.op = "buckets"
    /\ m > 2
    /\ digest[last.key] = << Limb - 1, Limb - 1, Limb - 1, Limb - 1 >>
    /\ last.res = << m \div 2 - 1, m - 1 >>

(* C20: m is even and the cell list has m * b cells of two slots in every   *)
(* state; b never changes; m changes only in a put that rehashes, which     *)
(* doubles it once per rehash; erase, get and a put that does not rehash    *)
(* leave m and the length of the list as they are.                          *)
C20_MEvenAndOnlyDoubles ==
    /\ [](m % 2 = 0 /\ DOMAIN data = 0 .. (m * b * 2 - 1))
    /\ [][ /\ b' = b
           /\ m' >= m
           /\ m' # m => (last'.op = "put" /\ last'.rehashes > 0)
           /\ last'.op = "put" => m' = m * Pow2(last'.rehashes)
           /\ last'.op # "put" => (m' = m /\ DOMAIN data' = DOMAIN data) ]_vars

(* C20's case: one put that rehashed twice, m going from 2 to 8.            *)
C20_Witness ==
    /\ last.op = "put" /\ last.res = "ok"
    /\ last.rehashes = 2
    /\ m = 8

----------------------------------------------------------------------------
(* What the claims about the displacement engine speak of.                  *)

(* Both candidate buckets of key are full and hold no cell of key: the two  *)
(* _upsert calls of __setitem__ return False.                               *)
BothFull(key) ==
    \A j \in 1 .. 2 :
        /\ FirstAt(data, Indices(Self, Buckets(Self, key)[j]), 1, key) < 0
        /\ FirstAt(data, Indices(Self, Buckets(Self, key)[j]), 1, NIL) < 0

(* The search _displace makes for key on the table as it is.                *)
SearchOf(key) == FindPath(Self, Buckets(Self, key)[1], Buckets(Self, key)[2])

(* No cell index occurs twice in path.                                      *)
NoRepeat(path) == \A i, j \in 1 .. Len(path) : path[i] = path[j] => i = j

(* The bucket of its two that the resident of cell idx is not in.           *)
OtherBucket(idx) ==
    LET vb == Buckets(Self, data[idx])
    IN  IF vb[1] = BucketOf(idx) THEN vb[2] ELSE vb[1]

(* How many cells of d hold the pair (key, val).                            *)
Copies(d, key, val) ==
    Cardinality({ i \in Occupied(d) : d[i] = key /\ d[i + 1] = val })

(* C15: the displacement engine runs only when both candidate buckets of    *)
(* the key are full and hold no cell of the key; a migration leaves every   *)
(* pair stored as often as before, moves each pair on the path into the     *)
(* other of its two candidate buckets, writes the new pair into a cell of   *)
(* b1 or b2 of its key, and adds exactly 1 to len.                          *)
C15_DisplacementMigrates ==
    [][ \A k \in DOMAIN digest :
          (last'.op = "put" /\ last'.key = k /\ last'.res = "ok") =>
              /\ (last'.migrations > 0 \/ last'.rehashes > 0) => BothFull(k)
              /\ (last'.migrations = 1 /\ last'.rehashes = 0) =>
                     \E f \in { SearchOf(k) } :
                         /\ f.kind = "found"
                         /\ \A j \in DOMAIN digest, v \in Vals :
                                Copies(data', j, v) =
                                    Copies(data, j, v)
                                        + (IF j = k /\ v = ref'[k] THEN 1 ELSE 0)
                         /\ \A i \in 1 .. (Len(f.path) - 1) :
                                /\ data'[f.path[i + 1]] = data[f.path[i]]
                                /\ data'[f.path[i + 1] + 1] = data[f.path[i] + 1]
                                /\ BucketOf(f.path[i + 1]) = OtherBucket(f.path[i])
                                /\ BucketOf(f.path[i + 1]) # BucketOf(f.path[i])
                         /\ data'[f.path[1]] = k
                         /\ data'[f.path[1] + 1] = ref'[k]
                         /\ BucketOf(f.path[1]) \in
                                { Buckets(Self, k)[1], Buckets(Self, k)[2] }
                         /\ len' = len + 1
                         /\ m' = m ]_vars

(* C15's case: a put that migrated without rehashing and left its key in    *)
(* its second bucket.                                                       *)
C15_Witness ==
    /\ last.op = "put" /\ last.res = "ok"
    /\ last.migrations = 1 /\ last.rehashes = 0
    /\ Search(Self, Buckets(Self, last.key)[2], last.key) # NIL

(* C16: during a migration invariant 1 holds after every single cell write  *)
(* (each copy of a key slot, each copy of a value slot, the write of the    *)
(* new key and of its value), not only at the end.                          *)
C16_Invariant1AfterEveryWrite ==
    err = "none" =>
        \A k \in DOMAIN digest :
            BothFull(k) =>
                \E f \in { SearchOf(k) } :
                    f.kind = "found" =>
                        \A v \in Vals :
                            \E w \in { MigrateWrites(data, f.path, k, v) } :
                                /\ Len(w) = 2 * Len(f.path)
                                /\ \A i \in 1 .. Len(w) : Invariant1(w[i], m)
                                /\ w[Len(w)] = Migrate(Self, f.path, k, v).data

(* C16's case: a migration along a path of three cells, whose first write   *)
(* leaves a key in two cells.                                               *)
C16_Witness ==
    /\ err = "none"
    /\ Invariant1(data, m)
    /\ \E k \in DOMAIN digest :
           /\ BothFull(k)
           /\ \E f \in { SearchOf(k) } :
                  /\ f.kind = "found"
                  /\ Len(f.path) = 3
                  /\ \E w \in { MigrateWrites(data, f.path, k, 1) } :
                         /\ Len(w) = 6
                         /\ ~Invariant4(w[1])
                         /\ Invariant1(w[1], m)

(* The search for key after j passes of its loop.                           *)
SearchAfter(key, j) ==
    SearchSteps(Self, SearchStart(Self, Buckets(Self, key)[1], Buckets(Self, key)[2]), j)

(* C17: a displacement search takes at most CYCLES paths from the deque; it *)
(* stops at the first of them whose last cell is empty and migrates along   *)
(* it without rehashing; it rehashes and puts again exactly when CYCLES     *)
(* paths were taken and all ended in occupied cells; the search writes no   *)
(* cell, so the migration starts from the cells as they were.               *)
C17_SearchBudget ==
    [][ \A k \in DOMAIN digest :
          (last'.op = "put" /\ last'.key = k /\ last'.res = "ok") =>
              /\ last'.rehashes > 0 => BothFull(k)
              /\ BothFull(k) =>
                     \E f \in { SearchOf(k) } :
                         /\ f.n <= CYCLES
                         /\ f.kind \in { "found", "searching" }
                         /\ f.kind = "found" =>
                                /\ data[f.path[Len(f.path)]] = NIL
                                /\ \A j \in 0 .. (f.n - 1) :
                                       \E s \in { SearchAfter(k, j) } :
                                           /\ s.kind = "searching"
                                           /\ j < f.n - 1 =>
                                                  data[Head(s.q)[Len(Head(s.q))]] # NIL
                                           /\ j = f.n - 1 => Head(s.q) = f.path
                                /\ last'.rehashes = 0
                                /\ last'.migrations = 1
                                /\ m' = m
                                /\ data' = Migrate(Self, f.path, k, ref'[k]).data
                         /\ f.kind = "searching" =>
                                /\ f.n = CYCLES
                                /\ last'.rehashes > 0
                                /\ m' >= 2 * m ]_vars

(* C17's case: a put on a table of two cells per bucket whose search used   *)
(* up its budget and rehashed once.                                         *)
C17_Witness ==
    /\ last.op = "put" /\ last.res = "ok"
    /\ last.rehashes = 1
    /\ b = 2
    /\ m = 8

(* The cells of a bucket.                                                   *)
CellsIn(bucket) == { Indices(Self, bucket)[i] : i \in 1 .. b }

(* path is an eviction chain for key: it starts at a cell of b1 or b2 of    *)
(* key, each next cell lies in the other bucket of the resident of the cell *)
(* before it, and it ends at its only empty cell.                           *)
EvictionChain(key, path) ==
    /\ Len(path) >= 1
    /\ path[1] \in CellsIn(Buckets(Self, key)[1]) \cup CellsIn(Buckets(Self, key)[2])
    /\ \A i \in 1 .. (Len(path) - 1) :
           /\ data[path[i]] # NIL
           /\ path[i + 1] \in CellsIn(OtherBucket(path[i]))
    /\ data[path[Len(path)]] = NIL

(* The number of cells of a shortest eviction chain that ends in frontier   *)
(* or beyond it, by levels: frontier holds the cells that chains of depth   *)
(* cells end at and no shorter chain does; 0 when there is no chain.        *)
RECURSIVE ShortestFrom(_, _, _)
ShortestFrom(frontier, seen, depth) ==
    IF \E c \in frontier : data[c] = NIL THEN depth
    ELSE LET next == UNION { CellsIn(OtherBucket(c)) : c \in frontier } \ seen
         IN  IF next = {} THEN 0
             ELSE ShortestFrom(next, seen \cup next, depth + 1)

Shortest(key) ==
    LET seeds == CellsIn(Buckets(Self, key)[1]) \cup CellsIn(Buckets(Self, key)[2])
    IN  ShortestFrom(seeds, seeds, 1)

(* C18: the path a successful search hands to the migration is an eviction  *)
(* chain and no eviction chain has fewer cells.                             *)
C18_ShortestChain ==
    err = "none" =>
        \A k \in DOMAIN digest :
            BothFull(k) =>
                \E f \in { SearchOf(k) } :
                    f.kind = "found" =>
                        /\ EvictionChain(k, f.path)
                        /\ Len(f.path) = Shortest(k)

(* C18's case: the search finds a chain of three cells that starts in the   *)
(* second bucket, the chains from the cell of the first being longer.       *)
C18_Witness ==
    /\ err = "none"
    /\ \E k \in DOMAIN digest :
           /\ BothFull(k)
           /\ \E f \in { SearchOf(k) } :
                  /\ f.kind = "found"
                  /\ Len(f.path) = 3
                  /\ Shortest(k) = 3
                  /\ f.path[1] \in CellsIn(Buckets(Self, k)[2])

(* C19: the path handed to the migration holds no cell twice, although the  *)
(* search keeps no visited set; so the migration copies every resident pair *)
(* of the path exactly once, into the next cell of the path, overwrites no  *)
(* pair that it has not copied, and leaves the other cells alone.           *)
C19_PathWithoutRepeats ==
    err = "none" =>
        \A k \in DOMAIN digest :
            BothFull(k) =>
                \E f \in { SearchOf(k) } :
                    f.kind = "found" =>
                        /\ NoRepeat(f.path)
                        /\ \A v \in Vals :
                               \E d \in { Migrate(Self, f.path, k, v).data } :
                                   /\ \A i \in 1 .. (Len(f.path) - 1) :
                                          /\ d[f.path[i + 1]] = data[f.path[i]]
                                          /\ d[f.path[i + 1] + 1] = data[f.path[i] + 1]
                                   /\ \A c \in DOMAIN data :
                                          (\A i \in 1 .. Len(f.path) :
                                               c # f.path[i] /\ c # f.path[i] + 1)
                                              => d[c] = data[c]
                                   /\ \A c \in Occupied(data) :
                                          Copies(d, data[c], data[c + 1])
                                              >= Copies(data, data[c], data[c + 1])

(* C19's case: on a table of two cells per bucket the search succeeds while *)
(* its deque holds a path that comes back to a cell.                        *)
C19_Witness ==
    /\ err = "none"
    /\ b = 2
    /\ \E k \in DOMAIN digest :
           /\ BothFull(k)
           /\ \E f \in { SearchOf(k) } :
                  /\ f.kind = "found"
                  /\ NoRepeat(f.path)
                  /\ \E i \in 1 .. Len(f.q) : ~NoRepeat(f.q[i])

====
